---- MODULE Spec2Model ----
(***************************************************************************)
(* Model of scripts/pysolc.py: the solc version catalog, the per-file      *)
(* pragma parser, the project-wide version resolution and the install /    *)
(* locate / run sequence of compile_solfiles.                              *)
(***************************************************************************)
EXTENDS Integers, Sequences, FiniteSets

(***************************************************************************)
(* Bounds of the explored input space.                                     *)
(***************************************************************************)
\* longest file (in lines) handed to parse_version
MaxLines == 2
\* longest list of files of one request
MaxFiles == 2
\* longest release listing returned by the GitHub API
MaxReleases == 3
\* longest list returned by get_installed_solc_versions
MaxInstalled == 2

(***************************************************************************)
(* Versions.  A SolidityVersion is its StrictVersion.version tuple         *)
(* (major, minor, patch).                                                  *)
(***************************************************************************)
V0_4_10 == <<0, 4, 10>>
V0_4_11 == <<0, 4, 11>>
V0_4_24 == <<0, 4, 24>>
V0_5_0 == <<0, 5, 0>>
V0_5_10 == <<0, 5, 10>>
V0_6_0 == <<0, 6, 0>>
V1_0_0 == <<1, 0, 0>>

\* the versions releases and installations are drawn from
Versions == {V0_4_10, V0_4_11, V0_4_24, V0_5_0, V0_5_10, V1_0_0}

MINIMAL_SOLC_VERSION == V0_4_11

\* the value of solc_version=None and of "no version"
NoVersion == <<>>

\* comparison of two Python tuples of integers: -1, 0 or 1
RECURSIVE TupleCmp(_, _)
TupleCmp(a, b) ==
    IF a = <<>> /\ b = <<>> THEN 0
    ELSE IF a = <<>> THEN -1
    ELSE IF b = <<>> THEN 1
    ELSE IF Head(a) < Head(b) THEN -1
    ELSE IF Head(a) > Head(b) THEN 1
    ELSE TupleCmp(Tail(a), Tail(b))

\* the comparators SolidityVersion inherits from StrictVersion
VersionLt(v, w) == TupleCmp(v, w) < 0
VersionGt(v, w) == TupleCmp(v, w) > 0
VersionLe(v, w) == TupleCmp(v, w) <= 0
VersionGe(v, w) == TupleCmp(v, w) >= 0
VersionEq(v, w) == TupleCmp(v, w) = 0

\* a plausible slip of __xor__: minor and patch compared one by one
XorComponentwise(v, w) ==
    v[1] = w[1] /\ v[2] >= w[2] /\ v[3] >= w[3]

\* SolidityVersion.__xor__: v ^ w
Xor(v, w) ==
    v[1] = w[1] /\ TupleCmp(Tail(v), Tail(w)) >= 0

\* the operator symbols of comp_version_rex; "" is the missing operator
OpSymbols == {">", "<", "", ">=", "<=", "^"}

\* the dispatch table ops: ops[sym](v, w)
ops(sym, v, w) ==
    CASE sym = ">" -> VersionGt(v, w)
      [] sym = "<" -> VersionLt(v, w)
      [] sym = "" -> VersionEq(v, w)
      [] sym = ">=" -> VersionGe(v, w)
      [] sym = "<=" -> VersionLe(v, w)
      [] sym = "^" -> Xor(v, w)

(***************************************************************************)
(* Source lines.  A line is a sequence of tokens: a word, an operator      *)
(* symbol, or a three-part version number.  Adjacent tokens are adjacent   *)
(* in the text unless a "space" word separates them.                       *)
(***************************************************************************)
Word(s) == [kind |-> "word", text |-> s, ver |-> NoVersion]
Sym(s) == [kind |-> "op", text |-> s, ver |-> NoVersion]
Num(v) == [kind |-> "ver", text |-> "", ver |-> v]

\* contract C {
LContract == <<Word("contract")>>
\* pragma experimental "v1.0.0";
LExperimental == <<Word("pragma"), Word("experimental"), Num(V1_0_0)>>
\* pragma solidity >=0.4.24 <0.6.0;
LRange == <<Word("pragma"), Sym(">="), Num(V0_4_24), Word(" "), Sym("<"), Num(V0_6_0)>>
\* pragma solidity ^0.5.0;
LCaret == <<Word("pragma"), Sym("^"), Num(V0_5_0)>>
\* pragma solidity >=1.0.0;
LFuture == <<Word("pragma"), Sym(">="), Num(V1_0_0)>>
\* pragma solidity;
LBare == <<Word("pragma"), Word("solidity")>>

Lines == {LContract, LExperimental, LRange, LCaret, LFuture, LBare}

\* 'word' in l
Contains(l, w) == \E i \in 1..Len(l) : l[i].kind = "word" /\ l[i].text = w

\* 'pragma' in l and not 'experimental' in l
IsEligible(l) == Contains(l, "pragma") /\ ~Contains(l, "experimental")

\* comp_version_rex.findall(l) from token i on, mapped to OperatorVersionTuple:
\* an operator symbol directly followed by a version, or a version alone
RECURSIVE FindAll(_, _)
FindAll(l, i) ==
    IF i > Len(l) THEN <<>>
    ELSE IF l[i].kind = "op" /\ i < Len(l) /\ l[i + 1].kind = "ver"
         THEN <<[op |-> l[i].text, v |-> l[i + 1].ver]>> \o FindAll(l, i + 2)
    ELSE IF l[i].kind = "ver"
         THEN <<[op |-> "", v |-> l[i].ver]>> \o FindAll(l, i + 1)
    ELSE FindAll(l, i + 1)

\* conditions of an eligible line
Conditions(l) == FindAll(l, 1)

\* Python's max(iterable) over versions, from item i on with candidate m:
\* the candidate is replaced by an item that is greater
RECURSIVE PyMaxFrom(_, _, _)
PyMaxFrom(s, i, m) ==
    IF i > Len(s) THEN m
    ELSE PyMaxFrom(s, i + 1, IF VersionGt(s[i], m) THEN s[i] ELSE m)

\* Python's min(iterable) over versions, from item i on with candidate m:
\* the candidate is replaced by an item that is smaller
RECURSIVE PyMinFrom(_, _, _)
PyMinFrom(s, i, m) ==
    IF i > Len(s) THEN m
    ELSE PyMinFrom(s, i + 1, IF VersionLt(s[i], m) THEN s[i] ELSE m)

\* a plausible slip: max where min is meant
PyMinAsMax(s) == PyMaxFrom(s, 2, s[1])

\* min(s) of a non-empty s
PyMin(s) == PyMinFrom(s, 2, s[1])

\* a plausible slip: the first item where the maximum is meant
PyMaxAsFirst(s) == s[1]

\* max(s) of a non-empty s
PyMax(s) == PyMaxFrom(s, 2, s[1])

\* the result of a call: a returned version, or a raised exception
Returned(v) == [ok |-> TRUE, v |-> v, exc |-> ""]
Raised(e) == [ok |-> FALSE, v |-> NoVersion, exc |-> e]

\* SOLC_VERSIONS[-1]
LastOf(catalog) ==
    IF catalog = <<>> THEN Raised("IndexError") ELSE Returned(catalog[Len(catalog)])

\* a plausible slip: any() where all() is meant
fullfills_any_condition(v, conditions) ==
    \E i \in 1..Len(conditions) : ops(conditions[i].op, v, conditions[i].v)

\* fullfills_all_conditions(v)
fullfills_all_conditions(v, conditions) ==
    \A i \in 1..Len(conditions) : ops(conditions[i].op, v, conditions[i].v)

\* min(filter(fullfills_all_conditions, SOLC_VERSIONS)) of an eligible line l;
\* the ValueError of an empty filter becomes CompilerVersionNotSupported
MinFulfilling(l, catalog) ==
    LET fit == SelectSeq(catalog,
                   LAMBDA v : fullfills_all_conditions(v, Conditions(l)))
    IN IF fit = <<>> THEN Raised("CompilerVersionNotSupported")
       ELSE Returned(PyMin(fit))

\* a plausible slip: the last eligible line decides
RECURSIVE parse_version_last(_, _)
parse_version_last(lines, catalog) ==
    IF lines = <<>> THEN LastOf(catalog)
    ELSE LET l == lines[Len(lines)] IN
         IF IsEligible(l) THEN MinFulfilling(l, catalog)
         ELSE parse_version_last(SubSeq(lines, 1, Len(lines) - 1), catalog)

\* parse_version(source) for a file read as `lines`, with SOLC_VERSIONS = catalog:
\* the first eligible line decides, the loop's else clause returns the last
\* entry of the catalog
RECURSIVE parse_version(_, _)
parse_version(lines, catalog) ==
    IF lines = <<>> THEN LastOf(catalog)
    ELSE LET l == Head(lines) IN
         IF IsEligible(l) THEN MinFulfilling(l, catalog)
         ELSE parse_version(Tail(lines), catalog)

\* map(parse_version, files) consumed by max: the versions of the files parsed
\* before the first one that raises
RECURSIVE ParsedPrefix(_, _)
ParsedPrefix(fs, catalog) ==
    IF fs = <<>> THEN <<>>
    ELSE LET r == parse_version(Head(fs), catalog) IN
         IF r.ok THEN <<r.v>> \o ParsedPrefix(Tail(fs), catalog) ELSE <<>>

\* a plausible slip: a file that raises is left out of the maximum
ResolveAllLenient(fs, catalog) ==
    LET got == ParsedPrefix(fs, catalog) IN
    IF got = <<>> THEN parse_version(fs[1], catalog) ELSE Returned(PyMax(got))

\* max(map(parse_version, files)) for a non-empty list of files: the first
\* exception of a file ends it
ResolveAll(fs, catalog) ==
    LET got == ParsedPrefix(fs, catalog) IN
    IF Len(got) < Len(fs) THEN parse_version(fs[Len(got) + 1], catalog)
    ELSE Returned(PyMax(got))

\* a plausible slip: the check of the catalog left out
NeverEmpty(catalog) == FALSE

\* len(SOLC_VERSIONS) == 0
CatalogIsEmpty(catalog) == Len(catalog) = 0

(***************************************************************************)
(* The catalog refresh.                                                    *)
(***************************************************************************)
StaticLinux == "solc-static-linux"
\* the assets a release carries: with and without the static linux binary
AssetLists == {<<"solidity-windows.zip">>, <<"solidity-windows.zip", StaticLinux>>}

\* sequences of distinct elements of S, of length at most n
RECURSIVE DistinctSeqs(_, _)
DistinctSeqs(S, n) ==
    IF n = 0 THEN {<<>>}
    ELSE LET shorter == DistinctSeqs(S, n - 1)
             longer == {Append(s, x) : s \in shorter, x \in S}
         IN shorter \cup {t \in longer : \A i, j \in 1..Len(t) : i < j => t[i] # t[j]}

\* insertion of v into the sorted list s, after the items that are not greater
RECURSIVE InsertSorted(_, _)
InsertSorted(s, v) ==
    IF s = <<>> THEN <<v>>
    ELSE IF VersionLt(v, Head(s)) THEN <<v>> \o s
    ELSE <<Head(s)>> \o InsertSorted(Tail(s), v)

\* sorted(versions)
RECURSIVE sorted(_)
sorted(s) ==
    IF s = <<>> THEN <<>>
    ELSE InsertSorted(sorted(SubSeq(s, 1, Len(s) - 1)), s[Len(s)])

\* the for/else over release["assets"]
HasStaticLinux(assets) == \E i \in 1..Len(assets) : assets[i] = StaticLinux

\* the loop over releases: the versions kept, in listing order
RECURSIVE KeptReleases(_)
KeptReleases(releases) ==
    IF releases = <<>> THEN <<>>
    ELSE LET release == Head(releases)
             newversion == release.tag_name
         IN IF VersionLt(newversion, MINIMAL_SOLC_VERSION) THEN KeptReleases(Tail(releases))
            ELSE IF ~HasStaticLinux(release.assets) THEN KeptReleases(Tail(releases))
            ELSE <<newversion>> \o KeptReleases(Tail(releases))

\* a plausible slip: the fallback merged into the catalog it finds
InstalledSupportedMerged(installed, old) ==
    old \o SelectSeq(installed, LAMBDA v : VersionGe(v, MINIMAL_SOLC_VERSION))

\* the fallback: [v for v in versions if v >= MINIMAL_SOLC_VERSION], which
\* replaces the catalog `old`
InstalledSupported(installed, old) ==
    SelectSeq(installed, LAMBDA v : VersionGe(v, MINIMAL_SOLC_VERSION))

(***************************************************************************)
(* Inputs of a request.                                                    *)
(***************************************************************************)
\* the files of at most n lines
RECURSIVE FilesUpTo(_)
FilesUpTo(n) ==
    IF n = 0 THEN {<<>>}
    ELSE LET shorter == FilesUpTo(n - 1) IN
         shorter \cup {Append(f, l) : f \in shorter, l \in Lines}

\* the files of at most one line
ShortFiles == {<<>>} \cup {<<l>> : l \in Lines}

\* what the n files of a request hold when they are read: one file of up to
\* MaxLines lines, or several files of at most one line
ProjectContents(n) ==
    IF n = 1 THEN {<<f>> : f \in FilesUpTo(MaxLines)}
    ELSE [1..n -> ShortFiles]

\* the release listings: distinct tags, each with its assets
Releases == [tag_name : Versions, assets : AssetLists]
ReleaseListings ==
    {rs \in DistinctSeqs(Releases, MaxReleases) :
        \A i, j \in 1..Len(rs) : i < j => rs[i].tag_name # rs[j].tag_name}

\* the versions found installed, and what get_installed_solc_versions can
\* return: any of them, in any order
InstalledVersions == {V0_4_10, V0_4_11, V0_4_24, V0_5_0, V1_0_0}
InstalledListings == DistinctSeqs(InstalledVersions, MaxInstalled)

\* the versions a caller passes as solc_version
ExplicitVersions == {V0_4_10, V0_5_0}

\* some version of the catalog `old` is not in the catalog `new`
Dropped(old, new) ==
    \E i \in 1..Len(old) : \A j \in 1..Len(new) : new[j] # old[i]

NoMessage == [text |-> "", version |-> NoVersion]

(***************************************************************************)
(* State.                                                                  *)
(***************************************************************************)
VARIABLES
    SOLC_VERSIONS,     \* the process-wide catalog
    pc,                \* position of compile_solfiles
    files,             \* the files argument: the paths 1..n
    contents,          \* what the files held when resolution read them, kept
                       \* until resolution is over
    solc_version,      \* the solc_version argument / local
    explicit,          \* the caller passed solc_version
    perFile,           \* the versions parse_version returned, file by file,
                       \* kept until resolution is over
    parsed,            \* number of files parse_version was called on
    catalogSource,     \* "remote" or "local" once the catalog was refreshed
    installedSeen,     \* what get_installed_solc_versions returned, kept
                       \* until resolution is over
    staleDropped,      \* the refresh dropped a version of the catalog it found,
                       \* kept until resolution is over
    outcome,           \* "ok" or the exception the request ended with
    message,           \* the exception's message and the version it names
    excFiles,          \* SolidityCompilationException.files
    installCalled,     \* install_solc was called
    installOK,         \* install_solc returned
    binaryFound,       \* _get_binary returned a path
    compilerExecuted,  \* solc_wrapper was called
    opSym, opV, opW,   \* operands of one evaluation of ops[sym](v, w)
    opRes              \* its result, "unset" before

request == <<pc, files, contents, solc_version, explicit, perFile, parsed,
             catalogSource, installedSeen, staleDropped, outcome, message,
             excFiles, installCalled, installOK, binaryFound, compilerExecuted>>
opvars == <<opSym, opV, opW, opRes>>
vars == <<SOLC_VERSIONS, request, opvars>>

\* the locals of a request before compile_solfiles is called
Idle ==
    /\ pc = "idle"
    /\ files = <<>>
    /\ contents = <<>>
    /\ solc_version = NoVersion
    /\ explicit = FALSE
    /\ perFile = <<>>
    /\ parsed = 0
    /\ catalogSource = "none"
    /\ installedSeen = <<>>
    /\ staleDropped = FALSE
    /\ outcome = "none"
    /\ message = NoMessage
    /\ excFiles = <<>>
    /\ installCalled = FALSE
    /\ installOK = FALSE
    /\ binaryFound = FALSE
    /\ compilerExecuted = FALSE

\* module load: SOLC_VERSIONS = []
Init ==
    /\ SOLC_VERSIONS = <<>>
    /\ Idle
    /\ opSym = ""
    /\ opV = NoVersion
    /\ opW = NoVersion
    /\ opRes = "unset"

(***************************************************************************)
(* compile_solfiles, step by step.                                         *)
(***************************************************************************)
\* the call, up to `if solc_version is None`
Call ==
    /\ pc = "idle"
    /\ \E n \in 1..MaxFiles, sv \in {NoVersion} \cup ExplicitVersions :
          /\ files' = [i \in 1..n |-> i]
          /\ solc_version' = sv
          /\ explicit' = (sv # NoVersion)
          /\ pc' = IF sv = NoVersion THEN "refresh" ELSE "install"
    /\ UNCHANGED <<SOLC_VERSIONS, contents, perFile, parsed, catalogSource,
                   installedSeen, staleDropped, outcome, message, excFiles,
                   installCalled, installOK, binaryFound, compilerExecuted, opvars>>

\* set_supported_solc_versions, the listing was fetched
RefreshRemote ==
    /\ pc = "refresh"
    /\ \E releases \in ReleaseListings :
          SOLC_VERSIONS' = sorted(KeptReleases(releases))
    /\ staleDropped' = Dropped(SOLC_VERSIONS, SOLC_VERSIONS')
    /\ catalogSource' = "remote"
    /\ pc' = "check"
    /\ UNCHANGED <<files, contents, solc_version, explicit, perFile, parsed,
                   installedSeen, outcome, message, excFiles,
                   installCalled, installOK, binaryFound, compilerExecuted, opvars>>

\* set_supported_solc_versions, requests.get raised RequestException
RefreshFallback ==
    /\ pc = "refresh"
    /\ \E installed \in InstalledListings :
          /\ SOLC_VERSIONS' = InstalledSupported(installed, SOLC_VERSIONS)
          /\ installedSeen' = installed
    /\ staleDropped' = Dropped(SOLC_VERSIONS, SOLC_VERSIONS')
    /\ catalogSource' = "local"
    /\ pc' = "check"
    /\ UNCHANGED <<files, contents, solc_version, explicit, perFile, parsed,
                   outcome, message, excFiles,
                   installCalled, installOK, binaryFound, compilerExecuted, opvars>>

\* len(SOLC_VERSIONS) == 0: raise CompilerVersionNotSupported
EmptyCatalog ==
    /\ pc = "check"
    /\ CatalogIsEmpty(SOLC_VERSIONS)
    /\ outcome' = "CompilerVersionNotSupported"
    /\ message' = [text |-> "No compiler available. No connection to GitHub?",
                   version |-> NoVersion]
    /\ pc' = "raised"
    /\ UNCHANGED <<SOLC_VERSIONS, files, contents, solc_version, explicit, perFile,
                   parsed, catalogSource, installedSeen, staleDropped, excFiles,
                   installCalled, installOK, binaryFound, compilerExecuted, opvars>>

\* solc_version = max(map(parse_version, files))
Resolve ==
    /\ pc = "check"
    /\ ~CatalogIsEmpty(SOLC_VERSIONS)
    /\ \E cs \in ProjectContents(Len(files)) :
          LET got == ParsedPrefix(cs, SOLC_VERSIONS)
              r == ResolveAll(cs, SOLC_VERSIONS)
          IN /\ contents' = cs
             /\ perFile' = got
             /\ parsed' = IF r.ok THEN Len(cs) ELSE Len(got) + 1
             /\ IF r.ok
                THEN /\ solc_version' = r.v
                     /\ pc' = "install"
                     /\ UNCHANGED <<outcome, message>>
                ELSE /\ outcome' = r.exc
                     /\ message' = [text |-> IF r.exc = "CompilerVersionNotSupported"
                                             THEN "Conflicting Compiler Requirements"
                                             ELSE "list index out of range",
                                    version |-> NoVersion]
                     /\ pc' = "raised"
                     /\ UNCHANGED solc_version
    /\ UNCHANGED <<SOLC_VERSIONS, files, explicit, catalogSource, installedSeen,
                   staleDropped, excFiles, installCalled, installOK, binaryFound,
                   compilerExecuted, opvars>>

\* what install_solc can do: return, raise one of the two exceptions the
\* except clause names, or raise another one (a requests Timeout, an OSError)
InstallResults == {"ok", "ConnectionError", "CalledProcessError", "Timeout", "OSError"}

\* except (requests.exceptions.ConnectionError, subprocess.CalledProcessError)
CaughtByInstall(res) == res \in {"ConnectionError", "CalledProcessError"}

\* install_solc(f'v{solc_version}') and its except clause: an exception the
\* clause does not name leaves compile_solfiles as it is
Install ==
    /\ pc = "install"
    /\ installCalled' = TRUE
    /\ \E res \in InstallResults :
          IF res = "ok"
          THEN /\ installOK' = TRUE
               /\ pc' = "binary"
               /\ UNCHANGED <<outcome, message>>
          ELSE IF CaughtByInstall(res)
          THEN /\ outcome' = "CompilerVersionNotSupported"
               /\ message' = [text |-> "Failed to install compiler.",
                              version |-> solc_version]
               /\ pc' = "raised"
               /\ UNCHANGED installOK
          ELSE /\ outcome' = res
               /\ message' = NoMessage
               /\ pc' = "raised"
               /\ UNCHANGED installOK
    /\ contents' = <<>>
    /\ perFile' = <<>>
    /\ installedSeen' = <<>>
    /\ staleDropped' = FALSE
    /\ UNCHANGED <<SOLC_VERSIONS, files, solc_version, explicit,
                   parsed, catalogSource, excFiles,
                   binaryFound, compilerExecuted, opvars>>

\* binary = _get_binary(solc_version)
GetBinary ==
    /\ pc = "binary"
    /\ \E exists \in BOOLEAN :
          IF exists
          THEN /\ binaryFound' = TRUE
               /\ pc' = "run"
               /\ UNCHANGED <<outcome, message>>
          ELSE /\ outcome' = "AssertionError"
               /\ message' = [text |-> "solc binary not found for version",
                              version |-> solc_version]
               /\ pc' = "raised"
               /\ UNCHANGED binaryFound
    /\ UNCHANGED <<SOLC_VERSIONS, files, contents, solc_version, explicit, perFile,
                   parsed, catalogSource, installedSeen, staleDropped, excFiles,
                   installCalled, installOK, compilerExecuted, opvars>>

\* solc_wrapper(**compiler_kwargs) and its except clause
RunCompiler ==
    /\ pc = "run"
    /\ compilerExecuted' = TRUE
    /\ \E res \in {"ok", "SolcError"} :
          IF res = "ok"
          THEN /\ outcome' = "ok"
               /\ pc' = "returned"
               /\ UNCHANGED excFiles
          ELSE /\ outcome' = "SolidityCompilationException"
               /\ excFiles' = files
               /\ pc' = "raised"
    /\ UNCHANGED <<SOLC_VERSIONS, files, contents, solc_version, explicit, perFile,
                   parsed, catalogSource, installedSeen, staleDropped, message,
                   installCalled, installOK, binaryFound, opvars>>

\* the request is over; the catalog stays for the next one
Finish ==
    /\ pc \in {"returned", "raised"}
    /\ pc' = "idle"
    /\ files' = <<>>
    /\ contents' = <<>>
    /\ solc_version' = NoVersion
    /\ explicit' = FALSE
    /\ perFile' = <<>>
    /\ parsed' = 0
    /\ catalogSource' = "none"
    /\ installedSeen' = <<>>
    /\ staleDropped' = FALSE
    /\ outcome' = "none"
    /\ message' = NoMessage
    /\ excFiles' = <<>>
    /\ installCalled' = FALSE
    /\ installOK' = FALSE
    /\ binaryFound' = FALSE
    /\ compilerExecuted' = FALSE
    /\ UNCHANGED <<SOLC_VERSIONS, opvars>>

Next ==
    \/ Call
    \/ RefreshRemote
    \/ RefreshFallback
    \/ EmptyCatalog
    \/ Resolve
    \/ Install
    \/ GetBinary
    \/ RunCompiler
    \/ Finish

Spec == Init /\ [][Next]_vars

(***************************************************************************)
(* The comparison operators on their own: every operator symbol applied    *)
(* to every pair of versions.                                              *)
(***************************************************************************)
InitOps ==
    /\ SOLC_VERSIONS = <<>>
    /\ Idle
    /\ opSym \in OpSymbols
    /\ opV \in Versions
    /\ opW \in Versions
    /\ opRes = "unset"

\* cond.op(v, cond.v)
ApplyOp ==
    /\ opRes = "unset"
    /\ opRes' = IF ops(opSym, opV, opW) THEN "true" ELSE "false"
    /\ UNCHANGED <<SOLC_VERSIONS, request, opSym, opV, opW>>

\* the next condition and candidate
NextOperands ==
    /\ opRes # "unset"
    /\ opSym' \in OpSymbols
    /\ opV' \in Versions
    /\ opW' \in Versions
    /\ opRes' = "unset"
    /\ UNCHANGED <<SOLC_VERSIONS, request>>

NextOps ==
    \/ ApplyOp
    \/ NextOperands

SpecOps == InitOps /\ [][NextOps]_vars

(***************************************************************************)
(* Vocabulary of the properties, stated without the operators above.       *)
(***************************************************************************)
\* v is an older version than w
Before(v, w) ==
    \/ v[1] < w[1]
    \/ v[1] = w[1] /\ v[2] < w[2]
    \/ v[1] = w[1] /\ v[2] = w[2] /\ v[3] < w[3]

\* version v meets the constraint c = (operator, requirement)
Holds(c, v) ==
    CASE c.op = ">" -> Before(c.v, v)
      [] c.op = "<" -> Before(v, c.v)
      [] c.op = ">=" -> ~Before(v, c.v)
      [] c.op = "<=" -> ~Before(c.v, v)
      [] c.op = "" -> v = c.v
      [] c.op = "^" -> v[1] = c.v[1] /\ ~Before(v, c.v)

\* the line carries the version-declaration keyword / the experimental marker
HasKeyword(l) == \E i \in 1..Len(l) : l[i] = Word("pragma")
HasMarker(l) == \E i \in 1..Len(l) : l[i] = Word("experimental")

\* the positions of the eligible lines of file f
EligibleAt(f) == {i \in 1..Len(f) : HasKeyword(f[i]) /\ ~HasMarker(f[i])}
HasEligibleLine(f) == EligibleAt(f) # {}
FirstEligible(f) == CHOOSE i \in EligibleAt(f) : \A j \in EligibleAt(f) : i <= j

\* the ConstraintSet of file f: the constraints of its first eligible line
ConstraintsOf(f) ==
    IF HasEligibleLine(f) THEN Conditions(f[FirstEligible(f)]) ELSE <<>>

\* file f cut down to its first eligible line
Decisive(f) == IF HasEligibleLine(f) THEN <<f[FirstEligible(f)]>> ELSE <<>>

CatalogSet == {SOLC_VERSIONS[i] : i \in 1..Len(SOLC_VERSIONS)}

\* the catalog versions that meet every constraint of cs
Satisfying(cs) == {v \in CatalogSet : \A i \in 1..Len(cs) : Holds(cs[i], v)}

\* the catalog versions that meet every constraint of every file read
JointlySatisfying ==
    {v \in CatalogSet : \A i \in 1..Len(contents) :
        \A k \in 1..Len(ConstraintsOf(contents[i])) :
            Holds(ConstraintsOf(contents[i])[k], v)}

IsLeastOf(v, S) == v \in S /\ \A w \in S : ~Before(w, v)
IsGreatestOf(v, S) == v \in S /\ \A w \in S : ~Before(v, w)

\* project-wide resolution was run and returned a version
ResolutionSucceeded == ~explicit /\ pc = "install"

\* what parse_version gave for the i-th file that was parsed
FileResult(i) ==
    IF i <= Len(perFile) THEN Returned(perFile[i])
    ELSE Raised("CompilerVersionNotSupported")

\* the permutations of 1..n
FileOrders(n) == {p \in [1..n -> 1..n] : \A i, j \in 1..n : i # j => p[i] # p[j]}

NoCompilerText == "No compiler available. No connection to GitHub?"
ConflictText == "Conflicting Compiler Requirements"

(***************************************************************************)
(* C1                                                                      *)
(***************************************************************************)
\* the least catalog version that meets the constraints of file f, in a set
LeastFor(f) == {m \in CatalogSet : IsLeastOf(m, Satisfying(ConstraintsOf(f)))}

\* every file read declares at least one constraint
AllConstrained == \A i \in 1..Len(contents) : ConstraintsOf(contents[i]) # <<>>

\* C1, as claimed, for lists in which every file declares a constraint: after a
\* successful project-wide resolution the selected version meets every
\* constraint of every file at once, and it is the minimal catalog version that
\* does.  (What the claim says of files without a constraint is C5's subject.)
C1_MinimalForAllFiles ==
    (ResolutionSucceeded /\ AllConstrained)
        => IsLeastOf(solc_version, JointlySatisfying)

\* C1, amended, for lists in which every file declares a constraint: after a
\* successful project-wide resolution the selected version is the greatest of
\* the files' minimal satisfying catalog versions; when some catalog version
\* meets every constraint of every file at once, it is the minimal catalog
\* version that does.
C1_MinimalWhenJointlySatisfiable ==
    (ResolutionSucceeded /\ AllConstrained) =>
        /\ \E i \in 1..Len(contents) : solc_version \in LeastFor(contents[i])
        /\ \A i \in 1..Len(contents) :
              \E m \in LeastFor(contents[i]) : ~Before(solc_version, m)
        /\ JointlySatisfying # {} => IsLeastOf(solc_version, JointlySatisfying)

\* a catalog of three versions, two files with different minimums that two
\* catalog versions suit at once, and one version that suits only the first
C1_Witness ==
    /\ ResolutionSucceeded
    /\ Len(contents) = 2
    /\ AllConstrained
    /\ perFile[1] # perFile[2]
    /\ Cardinality(CatalogSet) = 3
    /\ Cardinality(JointlySatisfying) = 2
    /\ IsLeastOf(solc_version, JointlySatisfying)

(***************************************************************************)
(* C2                                                                      *)
(***************************************************************************)
\* C2: for a file whose first eligible line yields constraints, parse_version
\* returns the minimum of the catalog versions that meet all of them, whatever
\* the order of the catalog.
C2_MinimumSatisfying ==
    \A i \in 1..Len(perFile) :
        ConstraintsOf(contents[i]) # <<>>
            => IsLeastOf(perFile[i], Satisfying(ConstraintsOf(contents[i])))

\* >=0.4.24 <0.6.0 over the catalog [0.5.0, 0.4.24] gives 0.4.24
C2_Witness ==
    /\ SOLC_VERSIONS = <<V0_5_0, V0_4_24>>
    /\ contents = <<<<LRange>>>>
    /\ perFile = <<V0_4_24>>

(***************************************************************************)
(* C3                                                                      *)
(***************************************************************************)
\* C3: when no file conflicts with the catalog, project-wide resolution returns
\* the maximum of the versions parse_version gave for the files, and the same
\* version for every order of the files.
C3_MaximumOfPerFile ==
    ResolutionSucceeded =>
        /\ Len(perFile) = Len(contents)
        /\ \E i \in 1..Len(perFile) : perFile[i] = solc_version
        /\ \A i \in 1..Len(perFile) : ~Before(solc_version, perFile[i])
        /\ \A p \in FileOrders(Len(contents)) :
              ResolveAll([i \in 1..Len(contents) |-> contents[p[i]]], SOLC_VERSIONS)
                  = Returned(solc_version)

\* per-file minimums 0.4.24 and 0.5.0 give 0.5.0
C3_Witness ==
    /\ ResolutionSucceeded
    /\ contents = <<<<LRange>>, <<LCaret>>>>
    /\ perFile = <<V0_4_24, V0_5_0>>
    /\ solc_version = V0_5_0

(***************************************************************************)
(* C4                                                                      *)
(***************************************************************************)
\* some catalog version is missing for the constraints of file f
Unsatisfiable(f) == ConstraintsOf(f) # <<>> /\ Satisfying(ConstraintsOf(f)) = {}

\* C4: once resolution has read files of which one has constraints that no
\* catalog version meets, the request has ended with CompilerVersionNotSupported
\* ("Conflicting Compiler Requirements"), wherever that file is in the list; no
\* version was selected, nothing was installed and the compiler was not run.
C4_ConflictFails ==
    (/\ ~explicit
     /\ \E i \in 1..Len(contents) : Unsatisfiable(contents[i]))
        => /\ pc = "raised"
           /\ outcome = "CompilerVersionNotSupported"
           /\ message.text = ConflictText
           /\ solc_version = NoVersion
           /\ ~installCalled
           /\ ~compilerExecuted

\* the conflicting file is the second of two, after a file that resolved
C4_Witness ==
    /\ pc = "raised"
    /\ Len(contents) = 2
    /\ ~Unsatisfiable(contents[1])
    /\ ConstraintsOf(contents[1]) # <<>>
    /\ Unsatisfiable(contents[2])
    /\ parsed = 2

(***************************************************************************)
(* C5                                                                      *)
(***************************************************************************)
\* C5, as claimed: a file with an empty ConstraintSet (no eligible line, or an
\* eligible line without a version constraint) gets the maximum version of the
\* catalog, whether the catalog came from the listing or from the fallback.
C5_LatestWhenUnconstrained ==
    \A i \in 1..Len(perFile) :
        ConstraintsOf(contents[i]) = <<>> => IsGreatestOf(perFile[i], CatalogSet)

(***************************************************************************)
(* C6                                                                      *)
(***************************************************************************)
\* the installed versions that are not older than the minimum supported one
SupportedInstalled ==
    {installedSeen[i] : i \in {j \in 1..Len(installedSeen) :
                                  ~Before(installedSeen[j], V0_4_11)}}

\* C6: after a refresh whose fetch failed, the request goes on without an
\* exception of the refresh, the catalog is exactly the installed versions that
\* are >= 0.4.11, whatever it held before, and a version resolved afterwards is
\* one of them.
C6_FallbackReplacesCatalog ==
    (catalogSource = "local" /\ ~installCalled) =>
        /\ CatalogSet = SupportedInstalled
        /\ Len(SOLC_VERSIONS) = Cardinality(SupportedInstalled)
        /\ pc = "check" => outcome = "none"
        /\ ResolutionSucceeded => solc_version \in SupportedInstalled

\* offline, a version of the stale catalog is gone, an installed version below
\* the minimum was filtered out, and resolution picked an installed version
C6_Witness ==
    /\ catalogSource = "local"
    /\ staleDropped
    /\ pc = "install"
    /\ \E i \in 1..Len(installedSeen) : installedSeen[i] = V0_4_10
    /\ solc_version \in SupportedInstalled

(***************************************************************************)
(* C7                                                                      *)
(***************************************************************************)
\* C7: c ^ r holds iff c and r have the same major and (minor, patch) of c is
\* lexicographically >= (minor, patch) of r.
C7_Caret ==
    (opSym = "^" /\ opRes # "unset") =>
        (opRes = "true" <=>
            /\ opV[1] = opW[1]
            /\ \/ opV[2] > opW[2]
               \/ opV[2] = opW[2] /\ opV[3] >= opW[3])

\* 0.5.0 ^ 0.4.24 holds: the minor is greater, the patch smaller
C7_Witness ==
    /\ opSym = "^"
    /\ opV = V0_5_0
    /\ opW = V0_4_24
    /\ opRes = "true"

(***************************************************************************)
(* C8                                                                      *)
(***************************************************************************)
\* C8: a request without an explicit version that finds the catalog empty after
\* the refresh has ended with CompilerVersionNotSupported, no file parsed,
\* nothing installed and the compiler not run.
C8_EmptyCatalogFails ==
    (/\ ~explicit
     /\ pc \in {"install", "binary", "run", "returned", "raised"}
     /\ SOLC_VERSIONS = <<>>)
        => /\ pc = "raised"
           /\ outcome = "CompilerVersionNotSupported"
           /\ message.text = NoCompilerText
           /\ parsed = 0
           /\ contents = <<>>
           /\ ~installCalled
           /\ ~compilerExecuted

\* offline, and the only installed version is below the minimum
C8_Witness ==
    /\ pc = "raised"
    /\ ~explicit
    /\ catalogSource = "local"
    /\ installedSeen = <<V0_4_10>>
    /\ SOLC_VERSIONS = <<>>
    /\ outcome = "CompilerVersionNotSupported"

(***************************************************************************)
(* C9                                                                      *)
(***************************************************************************)
\* C9: the compiler is run only after install_solc returned and the binary was
\* found; a failed installation ends the request with
\* CompilerVersionNotSupported naming the version, a missing binary with the
\* AssertionError, both without a run of the compiler; a failure of the
\* compiler ends it with SolidityCompilationException carrying the file list.
C9_InstallThenLocateThenRun ==
    /\ compilerExecuted => installOK /\ binaryFound
    /\ binaryFound => installOK
    /\ installOK => installCalled
    /\ (installCalled /\ ~installOK)
          => /\ pc = "raised"
             /\ outcome = "CompilerVersionNotSupported"
             /\ message = [text |-> "Failed to install compiler.", version |-> solc_version]
             /\ ~compilerExecuted
    /\ (installOK /\ ~binaryFound /\ pc # "binary")
          => /\ pc = "raised"
             /\ outcome = "AssertionError"
             /\ message.version = solc_version
             /\ ~compilerExecuted
    /\ (compilerExecuted /\ pc = "raised")
          => /\ outcome = "SolidityCompilationException"
             /\ excFiles = files
    /\ outcome = "SolidityCompilationException" => compilerExecuted
    /\ outcome = "ok" => compilerExecuted /\ pc = "returned"

(***************************************************************************)
(* C10                                                                     *)
(***************************************************************************)
\* C10: what parse_version gives for a file, a version or the conflict error,
\* is what it gives for the file cut down to its first line that has the keyword
\* and not the experimental marker (or to nothing when there is no such line).
C10_FirstEligibleLineDecides ==
    \A i \in 1..Len(contents) :
        i <= parsed => FileResult(i) = parse_version(Decisive(contents[i]), SOLC_VERSIONS)

\* a later declaration that no catalog version meets, after the deciding line
C10_Witness ==
    /\ Len(contents) = 1
    /\ contents[1] = <<LRange, LFuture>>
    /\ perFile = <<V0_4_24>>
    /\ V1_0_0 \notin CatalogSet

====
